---- MODULE Spec2Model ----
(***************************************************************************)
(* Verification model of the assemblies repository:                        *)
(*   src/assemblies/assembly_fun.py              (Assembly, support map)   *)
(*   src/assembly_calculus/brain/components.py   (Area, Stimulus,          *)
(*                                                Connection)              *)
(*   src/assembly_calculus/assemblies/assembly.py (Assembly,               *)
(*                                                AssemblyTuple)           *)
(***************************************************************************)
EXTENDS Integers, Sequences, FiniteSets, TLC

VARIABLES
    support,        \* Assembly.support: dict neuron -> age, in insertion order
    support_size,   \* Assembly.support_size
    last_update,    \* the last update_support call: arguments and outcome
    heap,           \* the Assembly objects constructed so far
    recipe,         \* the BrainRecipe's list of assemblies
    brain_winners,  \* brain.winners, per brain part
    fired,          \* number of rounds the brain has run
    calls,          \* number of project/merge/associate calls so far
    last_op,        \* the last project/merge/associate call
    registered,     \* assembly.py: brain.recipe.areas
    built_area,     \* components.py: the Area the last construction returned
    ctor,           \* components.py: the last Area(n, k, beta) call
    connection,     \* components.py: the last Connection, with its beta
    obj_hash,       \* assembly.py: hash(x) of each area and each projectable
    made,           \* assembly.py: the last Assembly.__new__ call and its uid
    added           \* the last evaluation of the + operator

supportVars == <<support, support_size, last_update>>

funVars == <<heap, recipe, brain_winners, fired, calls, last_op, registered>>

compVars == <<built_area, ctor, connection>>

pureVars == <<obj_hash, made, added>>

vars == <<support, support_size, last_update,
          heap, recipe, brain_winners, fired, calls, last_op, registered,
          built_area, ctor, connection,
          obj_hash, made, added>>

----------------------------------------------------------------------------
(* Bounds *)

MaxNeuron == 2
MaxAge == 3
MaxWinners == 2
MaxSupportSize == 2
MaxOps == 1
MaxN == 5
MaxK == 3
MaxHash == 1
MaxProjectable == 3
MaxParents == 2
MaxMembers == 2

Neurons == 1..MaxNeuron

SeqsUpTo(S, n) == UNION {[1..m -> S] : m \in 0..n}

Max(S) == CHOOSE x \in S : \A y \in S : y <= x

----------------------------------------------------------------------------
(* A Python dict int -> int: a sequence of entries with distinct keys,      *)
(* in insertion order.                                                      *)

Keys(d) == {d[i].neuron : i \in 1..Len(d)}

IndexOf(d, n) == CHOOSE i \in 1..Len(d) : d[i].neuron = n

GetItem(d, n) == d[IndexOf(d, n)].age

SetItemNoInsert(d, n, v) ==
    IF n \in Keys(d) THEN [d EXCEPT ![IndexOf(d, n)].age = v] ELSE d

\* d[n] = v: an existing key keeps its position, a new key goes last
SetItem(d, n, v) ==
    IF n \in Keys(d)
    THEN [d EXCEPT ![IndexOf(d, n)].age = v]
    ELSE Append(d, [neuron |-> n, age |-> v])

\* del d[key at position i]
DelItem(d, i) == SubSeq(d, 1, i - 1) \o SubSeq(d, i + 1, Len(d))

----------------------------------------------------------------------------
(* Assembly._update_support, assembly_fun.py:47-63 *)

AgeAllNoIncrement(d) == d

\* lines 53-54: every existing entry ages by one
AgeAll(d) == [i \in 1..Len(d) |-> [d[i] EXCEPT !.age = @ + 1]]

\* lines 52-55: oldest = max(1, the aged ages), computed BEFORE the reset
Oldest(d) == Max({1} \cup {AgeAll(d)[i].age : i \in 1..Len(d)})

RECURSIVE ResetWinners(_, _)
\* lines 56-57: for neuron in winners: support[neuron] = 1
ResetWinners(d, w) ==
    IF w = <<>> THEN d ELSE ResetWinners(SetItem(d, Head(w), 1), Tail(w))

EvictIndexInverted(d, oldest) ==
    IF \E i \in 1..Len(d) : d[i].age < oldest
    THEN CHOOSE i \in 1..Len(d) :
            /\ d[i].age < oldest
            /\ \A j \in 1..(i - 1) : d[j].age >= oldest
    ELSE 0

\* lines 60-63: the first entry, in iteration order, the loop does not skip
\* (age >= oldest); 0 when the loop skips every entry
EvictIndex(d, oldest) ==
    IF \E i \in 1..Len(d) : d[i].age >= oldest
    THEN CHOOSE i \in 1..Len(d) :
            /\ d[i].age >= oldest
            /\ \A j \in 1..(i - 1) : d[j].age < oldest
    ELSE 0

\* lines 60-63: the eviction loop deletes from the dict it iterates over.
\* The first deletion succeeds; the iterator's next step then raises
\* RuntimeError (dictionary changed size during iteration).
EvictionPass(d, oldest) ==
    LET i == EvictIndex(d, oldest) IN
    IF i = 0
    THEN [support |-> d, raised |-> "none"]
    ELSE [support |-> DelItem(d, i), raised |-> "RuntimeError"]

\* the whole method: the support map it leaves and the exception it raises
update_support(d, size, winners) ==
    LET oldest == Oldest(d)
        reset  == ResetWinners(AgeAll(d), winners)
    IN  IF Len(reset) <= size
        THEN [support |-> reset, raised |-> "none"]
        ELSE EvictionPass(reset, oldest)

----------------------------------------------------------------------------
(* Specification SpecSupport: one assembly, any sequence of update_support  *)
(* calls.                                                                   *)

\* the values the variables of the other specifications rest at
SupportIdle ==
    /\ support = <<>>
    /\ support_size = 0
    /\ last_update = [called |-> FALSE, winners |-> <<>>, before |-> <<>>,
                      raised |-> "none"]

FunIdle ==
    /\ heap = <<>>
    /\ recipe = <<>>
    /\ brain_winners = <<>>
    /\ fired = 0
    /\ calls = 0
    /\ last_op = [op |-> "none"]
    /\ registered = {}

CompIdle ==
    /\ built_area = [kind |-> "none", raised |-> "none"]
    /\ ctor = [called |-> FALSE]
    /\ connection = [kind |-> "none"]

PureIdle ==
    /\ obj_hash = <<>>
    /\ made = [called |-> FALSE]
    /\ added = [called |-> FALSE]

NoUpdate == [called |-> FALSE, winners |-> <<>>, before |-> <<>>,
             raised |-> "none"]

\* Assembly.__init__, assembly_fun.py:38-41: support = {}
InitSupport ==
    /\ support = <<>>
    /\ support_size \in 0..MaxSupportSize
    /\ last_update = NoUpdate
    /\ FunIdle
    /\ CompIdle
    /\ PureIdle

UpdateSupport(winners) ==
    /\ \A i \in 1..Len(support) : support[i].age < MaxAge
    /\ LET r == update_support(support, support_size, winners) IN
        /\ support' = r.support
        /\ last_update' = [called |-> TRUE, winners |-> winners,
                           before |-> support, raised |-> r.raised]
    /\ UNCHANGED support_size
    /\ UNCHANGED <<funVars, compVars, pureVars>>

NextSupport == \E w \in SeqsUpTo(Neurons, MaxWinners) : UpdateSupport(w)

SpecSupport == InitSupport /\ [][NextSupport]_vars

----------------------------------------------------------------------------
(* Claims about the support tracker, checked under SpecSupport *)

\* the support map as it is after ageing and reset, before any eviction
AgedAndReset == ResetWinners(AgeAll(last_update.before), last_update.winners)

InWinners(n) == \E i \in 1..Len(last_update.winners) : last_update.winners[i] = n

\* the entries the last call removed
Removed == {i \in 1..Len(AgedAndReset) : AgedAndReset[i].neuron \notin Keys(support)}

\* C1: after every update_support call the support map holds at most
\* support_size entries.
C1_SupportWithinCapacity ==
    last_update.called => Len(support) <= support_size

\* C2: after update_support(winners), every retained neuron that is in
\* winners has age 1, every retained neuron that was present and is not in
\* winners has its previous age plus 1, and every retained neuron comes from
\* the previous support or from winners.
C2_AgesAndReinforces ==
    last_update.called =>
        \A i \in 1..Len(support) :
            LET n == support[i].neuron IN
            /\ n \in Keys(last_update.before) \cup
                     {last_update.winners[j] : j \in 1..Len(last_update.winners)}
            /\ InWinners(n) => support[i].age = 1
            /\ (~InWinners(n) /\ n \in Keys(last_update.before)) =>
                    support[i].age = GetItem(last_update.before, n) + 1

\* a call that inserted a new winner and aged a retained non-winner
C2_Witness ==
    /\ last_update.called
    /\ \E i \in 1..Len(support) :
        /\ InWinners(support[i].neuron)
        /\ support[i].neuron \notin Keys(last_update.before)
    /\ \E i \in 1..Len(support) :
        /\ ~InWinners(support[i].neuron)
        /\ support[i].age >= 2

\* C3: whenever a call removes entries, every removed entry is at least as
\* old (after ageing and reset) as every entry that remains.
C3_EvictsOldestFirst ==
    last_update.called =>
        \A i \in Removed : \A j \in 1..Len(support) :
            AgedAndReset[i].age >= support[j].age

\* a call that removed an entry strictly older than one it kept
C3_Witness ==
    /\ last_update.called
    /\ \E i \in Removed : \E j \in 1..Len(support) :
            AgedAndReset[i].age > support[j].age

----------------------------------------------------------------------------
(* Specification SpecFun: assembly_fun.py, Assembly._merge and              *)
(* Assembly._associate on a bound or unbound brain.                         *)

Areas == {"A", "B", "C"}

TheRecipe == "R"

\* winners lists a round can leave in an area: distinct neurons, in order
WinnerLists ==
    {w \in SeqsUpTo(Neurons, MaxWinners) :
        \A i, j \in 1..Len(w) : i # j => w[i] # w[j]}

\* Assembly.__init__, assembly_fun.py:25-45
NewAssembly(parents, area, size, t, appears_in) ==
    [parents |-> parents, area |-> area, support_size |-> size,
     support |-> <<>>, t |-> t, appears_in |-> appears_in]

\* assembly_fun.py:44-45: for recipe in self.appears_in: recipe.append(self)
RecipeAppend(r, appears_in, id) ==
    IF TheRecipe \in appears_in THEN Append(r, id) ELSE r

\* Assembly.fire_many(brain, assemblies, area): one round fires the parents
\* into the target area and leaves its winners there
fire_many(w_by_area, area, round_winners) ==
    [w_by_area EXCEPT ![area] = round_winners]

MergeGuardDropped(a1, a2) == TRUE

\* assembly_fun.py:133: assert assembly1.area_name != assembly2.area_name
MergeGuard(a1, a2) == heap[a1].area # heap[a2].area

\* Assembly._merge, assembly_fun.py:121-143, as the state it leaves.
\* bound: whether a brain is given; round_winners: the winners the fired
\* round leaves in the target area.
merge(a1, a2, area, bound, round_winners) ==
    IF ~MergeGuard(a1, a2)
    THEN [raised |-> "AssertionError", created |-> 0, heap |-> heap,
          recipe |-> recipe, brain_winners |-> brain_winners, fired |-> fired]
    ELSE
        LET id      == Len(heap) + 1
            merged  == NewAssembly(<<a1, a2>>, area, heap[a1].support_size,
                                   heap[a1].t,
                                   heap[a1].appears_in \cap heap[a2].appears_in)
            rec     == RecipeAppend(recipe, merged.appears_in, id)
        IN  IF ~bound
            THEN [raised |-> "none", created |-> id,
                  heap |-> Append(heap, merged), recipe |-> rec,
                  brain_winners |-> brain_winners, fired |-> fired]
            ELSE
                LET after == fire_many(brain_winners, area, round_winners)
                    upd   == update_support(merged.support, merged.support_size,
                                            after[area])
                IN  [raised |-> upd.raised, created |-> id,
                     heap |-> Append(heap, [merged EXCEPT !.support = upd.support]),
                     recipe |-> rec, brain_winners |-> after,
                     fired |-> fired + 1]

\* Assembly._associate, assembly_fun.py:145-156
associate(a1, a2, bound, round_winners) ==
    IF heap[a1].area # heap[a2].area
    THEN [raised |-> "AssertionError", created |-> 0, heap |-> heap,
          recipe |-> recipe, brain_winners |-> brain_winners, fired |-> fired]
    ELSE merge(a1, a2, heap[a1].area, bound, round_winners)

\* two parent assemblies X (in area A) and Y (in area A or B), both in the
\* recipe, no round run yet
InitFun ==
    /\ \E sx, sy \in 0..MaxSupportSize : \E ay \in {"A", "B"} :
        heap = << NewAssembly(<<>>, "A", sx, 1, {TheRecipe}),
                  NewAssembly(<<>>, ay, sy, 1, {TheRecipe}) >>
    /\ recipe = <<1, 2>>
    /\ brain_winners = [a \in Areas |-> <<>>]
    /\ fired = 0
    /\ calls = 0
    /\ last_op = [op |-> "none"]
    /\ registered = Areas
    /\ SupportIdle
    /\ CompIdle
    /\ PureIdle

Apply(name, a1, a2, area, bound, w, r) ==
    /\ heap' = r.heap
    /\ recipe' = r.recipe
    /\ brain_winners' = r.brain_winners
    /\ fired' = r.fired
    /\ calls' = calls + 1
    /\ last_op' = [op |-> name, a1 |-> a1, a2 |-> a2, area |-> area,
                   bound |-> bound, round_winners |-> w,
                   raised |-> r.raised, created |-> r.created,
                   recipe_before |-> recipe, winners_before |-> brain_winners,
                   fired_before |-> fired]
    /\ UNCHANGED <<registered, supportVars, compVars, pureVars>>

Merge(a1, a2, area, bound, w) ==
    /\ calls < MaxOps
    /\ Apply("merge", a1, a2, area, bound, w, merge(a1, a2, area, bound, w))

Associate(a1, a2, bound, w) ==
    /\ calls < MaxOps
    /\ Apply("associate", a1, a2, heap[a1].area, bound, w,
             associate(a1, a2, bound, w))

NextFun ==
    \/ /\ calls < MaxOps
       /\ \E a1, a2 \in 1..Len(heap) : \E area \in Areas :
            \/ \E w \in WinnerLists : Merge(a1, a2, area, TRUE, w)
            \/ Merge(a1, a2, area, FALSE, <<>>)
    \/ /\ calls < MaxOps
       /\ \E a1, a2 \in 1..Len(heap) :
            \/ \E w \in WinnerLists : Associate(a1, a2, TRUE, w)
            \/ Associate(a1, a2, FALSE, <<>>)

SpecFun == InitFun /\ [][NextFun]_vars

----------------------------------------------------------------------------
(* Claims about merge in assembly_fun.py, checked under SpecFun *)

\* the last call merged two assemblies of different areas into a third
\* area, on a bound brain, for one round
MergedIntoThird ==
    /\ last_op.op = "merge"
    /\ last_op.bound
    /\ last_op.created # 0
    /\ heap[last_op.a1].area # heap[last_op.a2].area
    /\ last_op.area \notin {heap[last_op.a1].area, heap[last_op.a2].area}

\* the support of the merged assembly is exactly the target area's winners
\* of the round, each with age 1
SupportIsRoundWinners ==
    LET m == heap[last_op.created]
        w == brain_winners[last_op.area]
    IN  /\ Keys(m.support) = {w[i] : i \in 1..Len(w)}
        /\ \A i \in 1..Len(m.support) : m.support[i].age = 1

\* C4 as stated: after such a merge the merged assembly's support is
\* exactly the round's winners with age 1, for any winners list and any
\* support_size.
C4_MergedSupportIsWinners == MergedIntoThird => SupportIsRoundWinners

\* C4 amended: the same, provided the round's winners are no more than the
\* support_size the merged assembly takes from its first parent.
C4_MergedSupportIsWinnersWithinCapacity ==
    (MergedIntoThird /\
     Len(brain_winners[last_op.area]) <= heap[last_op.a1].support_size)
        => (SupportIsRoundWinners /\ last_op.raised = "none")

\* a merge into a third area whose round left two winners, within capacity
C4_Witness ==
    /\ MergedIntoThird
    /\ Len(brain_winners[last_op.area]) = 2
    /\ heap[last_op.a1].support_size >= 2
    /\ Len(heap[last_op.created].support) = 2

\* C13: associate accepts every pair of (two different) assemblies that
\* live in the same area: it passes its own assertion and those of the merge it delegates
\* to, and completes.
C13_AssociateAcceptsSameArea ==
    (/\ last_op.op = "associate"
     /\ last_op.a1 # last_op.a2
     /\ heap[last_op.a1].area = heap[last_op.a2].area)
        => last_op.raised = "none"

----------------------------------------------------------------------------
(* Specification SpecComponents: components.py, Area.__init__ and           *)
(* Connection.beta.                                                         *)

\* Numbers: a Python int i is PyInt(i); the float math.sqrt(m) of an int
\* m >= 0 is MathSqrt(m), kept exact as the number whose square is m.
PyInt(i) == [type |-> "int", v |-> i]
MathSqrt(m) == [type |-> "float", v |-> m]

\* 0 < k
Positive(k) == k.v > 0

\* k <= n for an int n
LeqInt(k, n) ==
    IF k.type = "int" THEN k.v <= n ELSE n >= 0 /\ k.v <= n * n

\* k == r for an int r (Python compares a float and an int by value)
EqualsInt(k, r) ==
    IF k.type = "int" THEN k.v = r ELSE r >= 0 /\ r * r = k.v

\* the integer nearest to sqrt(n): sqrt(n) < r + 0.5 iff n <= r*r + r
RoundSqrt(n) ==
    LET r == CHOOSE x \in 0..n : x * x <= n /\ n < (x + 1) * (x + 1)
    IN  IF n - r * r > r THEN r + 1 ELSE r

IntOfPow05Rounded(n) == RoundSqrt(n)

\* components.py:18, int(n ** 0.5) for n >= 0: the float square root
\* truncated toward zero
IntOfPow05(n) ==
    CHOOSE r \in 0..n : r * r <= n /\ n < (r + 1) * (r + 1)

\* Optional[int]: None, or an int
None == [some |-> FALSE, v |-> 0]
Some(i) == [some |-> TRUE, v |-> i]

\* beta values in hundredths: 0.01 (Area's default) and 0.05 (Stimulus's)
Betas == {1, 5}

\* Area.__init__(n, k, beta), components.py:14-21: the Area it returns, or
\* the exception it raises
Area(n, k, beta) ==
    IF k = None
    THEN IF n < 0
         THEN [kind |-> "none", raised |-> "TypeError"]   \* int(complex)
         ELSE [kind |-> "Area", n |-> n, k |-> PyInt(IntOfPow05(n)),
               beta |-> beta, raised |-> "none"]
    ELSE IF k = Some(0)
         THEN IF n < 0
              THEN [kind |-> "none", raised |-> "ValueError"]  \* math.sqrt
              ELSE [kind |-> "Area", n |-> n, k |-> MathSqrt(n),
                    beta |-> beta, raised |-> "none"]
         ELSE [kind |-> "Area", n |-> n, k |-> PyInt(k.v),
               beta |-> beta, raised |-> "none"]

\* Stimulus.__init__(n, beta), components.py:42-45
Stimulus(n, beta) == [kind |-> "Stimulus", n |-> n, beta |-> beta]

\* Connection.beta, components.py:75-80
ConnectionBeta(source, dest) ==
    IF source.kind = "Stimulus" THEN dest.beta ELSE source.beta

\* the brain parts connections are built between
BrainParts ==
    {Area(MaxN, None, b) : b \in Betas} \cup {Stimulus(MaxN, b) : b \in Betas}

InitComponents ==
    /\ CompIdle
    /\ SupportIdle
    /\ FunIdle
    /\ PureIdle

ConstructArea(n, k, beta) ==
    /\ LET a == Area(n, k, beta) IN
        /\ built_area' = a
        /\ ctor' = [called |-> TRUE, n |-> n, k |-> k, beta |-> beta,
                    raised |-> a.raised]
    /\ UNCHANGED <<connection, supportVars, funVars, pureVars>>

\* Connection.__init__, components.py:70-73, then a read of its beta
Connect(source, dest) ==
    /\ connection' = [kind |-> "Connection", source |-> source, dest |-> dest,
                      beta |-> ConnectionBeta(source, dest)]
    /\ UNCHANGED <<built_area, ctor, supportVars, funVars, pureVars>>

NextComponents ==
    \/ \E n \in -1..MaxN : \E k \in {None} \cup {Some(i) : i \in -1..MaxK} : \E b \in Betas :
        ConstructArea(n, k, b)
    \/ \E s, d \in BrainParts : Connect(s, d)

SpecComponents == InitComponents /\ [][NextComponents]_vars

----------------------------------------------------------------------------
(* Claims about components.py, checked under SpecComponents *)

\* C5: for every Connection(source, dest), whether the source is a Stimulus
\* or an Area, Connection.beta equals dest.beta.
C5_BetaIsDestBeta ==
    connection.kind = "Connection" => connection.beta = connection.dest.beta

\* C6: every Area that construction returns satisfies 0 < k <= n (an
\* explicit k > n or a non-positive n is refused).
C6_AreaInvariant ==
    built_area.kind = "Area" => (Positive(built_area.k) /\ LeqInt(built_area.k, built_area.n))

\* the last construction was given no k, or k = 0, and a positive n
DefaultK == ctor.called /\ ctor.k \in {None, Some(0)} /\ ctor.n > 0

----------------------------------------------------------------------------
(* Specification SpecBrain: assembly.py, Assembly.project and               *)
(* AssemblyTuple._merge on a brain.                                         *)

TheStimulus == "S"

\* what a caller can pass as the target: the areas and a Stimulus
Targets == Areas \cup {TheStimulus}

\* isinstance(x, Area)
IsArea(x) == x \in Areas

WinnerSets == SUBSET Neurons

\* Assembly.__init__, assembly.py:190-209; repr is what the assembly's
\* reader reads as its representative neurons
Assembly(parents, target, initial_recipes, repr) ==
    [parents |-> parents, area |-> target, appears_in |-> initial_recipes,
     repr |-> repr]

\* Assembly.representative_neuron, assembly.py:220-222
representative_neuron(a) == heap[a].repr

\* assembly.py:254-255 and 85-86:
\*   if not isinstance(area, Area) and area in brain.recipe.areas: raise
\* with no brain, brain.recipe is read only when the first operand is true
TargetCheck(target, bound) ==
    IF IsArea(target) THEN "none"
    ELSE IF ~bound THEN "AttributeError"
    ELSE IF target \in registered THEN "TypeError"
    ELSE "none"

RECURSIVE AreaNeuronMapping(_, _)
\* assembly.py:278-280: area_neuron_mapping[ass.area] = list(repr), in the
\* order of the assemblies: a later assembly of the same area replaces an
\* earlier one
AreaNeuronMapping(assemblies, mapping) ==
    IF assemblies = <<>> THEN mapping
    ELSE AreaNeuronMapping(
            Tail(assemblies),
            [mapping EXCEPT ![heap[Head(assemblies)].area] =
                                representative_neuron(Head(assemblies))])

\* Assembly._activate_assemblies, assembly.py:271-284
activate_assemblies(assemblies, w_by_part) ==
    LET sources == {heap[assemblies[i]].area : i \in 1..Len(assemblies)}
        mapping == AreaNeuronMapping(assemblies, [p \in Targets |-> {}])
    IN  [p \in Targets |-> IF p \in sources THEN mapping[p] ELSE w_by_part[p]]

\* brain.next_round(subconnectome, replace=True, iterations): the round
\* either replaces the target's winners or fails as a whole
next_round(w_by_part, target, ok, round_winners) ==
    IF ok
    THEN [raised |-> "none", winners |-> [w_by_part EXCEPT ![target] = round_winners]]
    ELSE [raised |-> "NextRoundError", winners |-> w_by_part]

\* lines 257-263 and 88-108, shared by project and merge: construct the new
\* assembly, then, on a brain, activate the parents, clear the target's
\* winners and run the round
FireInto(assemblies, target, appears_in, bound, ok, round_winners) ==
    LET chk == TargetCheck(target, bound)
        id  == Len(heap) + 1
        rec == RecipeAppend(recipe, appears_in, id)
    IN  IF chk # "none"
        THEN [raised |-> chk, created |-> 0, heap |-> heap, recipe |-> recipe,
              brain_winners |-> brain_winners, fired |-> fired,
              at_round |-> brain_winners, invoked |-> FALSE]
        ELSE IF ~bound
        THEN [raised |-> "none", created |-> id,
              heap |-> Append(heap, Assembly(assemblies, target, appears_in, {})),
              recipe |-> rec, brain_winners |-> brain_winners,
              fired |-> fired, at_round |-> brain_winners, invoked |-> FALSE]
        ELSE
            LET active  == activate_assemblies(assemblies, brain_winners)
                cleared == [active EXCEPT ![target] = {}]
                round   == next_round(cleared, target, ok, round_winners)
            IN  [raised |-> round.raised, created |-> id,
                 heap |-> Append(heap, Assembly(assemblies, target, appears_in,
                                                round.winners[target])),
                 recipe |-> rec, brain_winners |-> round.winners,
                 fired |-> IF ok THEN fired + 1 ELSE fired,
                 at_round |-> cleared, invoked |-> TRUE]

\* Assembly.project, assembly.py:246-269
project(a, target, bound, ok, round_winners) ==
    FireInto(<<a>>, target, heap[a].appears_in, bound, ok, round_winners)

RECURSIVE SetIntersection(_, _)
\* set.intersection(*[x.appears_in for x in assemblies])
SetIntersection(assemblies, acc) ==
    IF assemblies = <<>> THEN acc
    ELSE SetIntersection(Tail(assemblies), acc \cap heap[Head(assemblies)].appears_in)

\* AssemblyTuple._merge, assembly.py:71-110
tuple_merge(assemblies, target, bound, ok, round_winners) ==
    FireInto(assemblies, target,
             SetIntersection(assemblies, heap[Head(assemblies)].appears_in),
             bound, ok, round_winners)

\* two parent assemblies, P1 in area A reading as {1} and P2 in area A or B
\* reading as {MaxNeuron}; the brain's recipe has registered areas A and B,
\* and C or not; no round run yet
InitBrain ==
    /\ \E ay \in {"A", "B"} :
        heap = << Assembly(<<>>, "A", {TheRecipe}, {1}),
                  Assembly(<<>>, ay, {TheRecipe}, {MaxNeuron}) >>
    /\ recipe = <<1, 2>>
    /\ brain_winners = [p \in Targets |-> {}]
    /\ fired = 0
    /\ calls = 0
    /\ last_op = [op |-> "none"]
    /\ registered \in {{"A", "B"}, Areas}
    /\ SupportIdle
    /\ CompIdle
    /\ PureIdle

ApplyBrain(name, assemblies, target, bound, ok, w, r) ==
    /\ heap' = r.heap
    /\ recipe' = r.recipe
    /\ brain_winners' = r.brain_winners
    /\ fired' = r.fired
    /\ calls' = calls + 1
    /\ last_op' = [op |-> name, assemblies |-> assemblies, target |-> target,
                   bound |-> bound, ok |-> ok, round_winners |-> w,
                   raised |-> r.raised, created |-> r.created,
                   invoked |-> r.invoked, at_round |-> r.at_round,
                   recipe_before |-> recipe, winners_before |-> brain_winners,
                   fired_before |-> fired]
    /\ UNCHANGED <<registered, supportVars, compVars, pureVars>>

Project(a, target, bound, ok, w) ==
    ApplyBrain("project", <<a>>, target, bound, ok, w,
               project(a, target, bound, ok, w))

TupleMerge(assemblies, target, bound, ok, w) ==
    ApplyBrain("merge", assemblies, target, bound, ok, w,
               tuple_merge(assemblies, target, bound, ok, w))

\* the tuples a caller can build from the assemblies there are
Tuples == UNION {[1..m -> 1..Len(heap)] : m \in 1..2}

NextBrain ==
    \/ /\ calls < MaxOps
       /\ \E a \in 1..Len(heap) : \E target \in Targets :
            \/ \E w \in WinnerSets : Project(a, target, TRUE, TRUE, w)
            \/ Project(a, target, TRUE, FALSE, {})
            \/ Project(a, target, FALSE, FALSE, {})
    \/ /\ calls < MaxOps
       /\ \E t \in Tuples : \E target \in Targets :
            \/ \E w \in WinnerSets : TupleMerge(t, target, TRUE, TRUE, w)
            \/ TupleMerge(t, target, TRUE, FALSE, {})
            \/ TupleMerge(t, target, FALSE, FALSE, {})

SpecBrain == InitBrain /\ [][NextBrain]_vars

----------------------------------------------------------------------------
(* Claims about assembly.py, checked under SpecBrain *)

NothingMutated ==
    /\ brain_winners = last_op.winners_before
    /\ fired = last_op.fired_before

\* C8: projecting or merging into a target that is not an Area registered
\* in the brain raises an error before any brain state is mutated:
\* brain.winners is as before the call and no round has run.
C8_UnregisteredTargetRejected ==
    (/\ last_op.op \in {"project", "merge"}
     /\ last_op.bound
     /\ (~IsArea(last_op.target) \/ last_op.target \notin registered))
        => (last_op.raised # "none" /\ NothingMutated)

\* the target of the last call is an Area registered in the brain
ValidTarget == IsArea(last_op.target) /\ last_op.target \in registered

\* the tuple holds two different assemblies that live in the same area
SameAreaPair(t) ==
    \E i, j \in 1..Len(t) :
        t[i] # t[j] /\ heap[t[i]].area = heap[t[j]].area

\* C9: merging assemblies that live in the same area (into a registered
\* Area) is rejected before any state mutation: no merged assembly is
\* appended to a recipe, brain.winners is unchanged and no round runs.
C9_SameAreaMergeRejected ==
    (last_op.op = "merge" /\ ValidTarget /\ SameAreaPair(last_op.assemblies))
        => (/\ last_op.raised # "none"
            /\ recipe = last_op.recipe_before
            /\ NothingMutated)

\* C10: when the next_round call issued by project or merge (into a
\* registered Area) fails, no area's winners have been overwritten:
\* brain.winners is as it was before the operation started.
C10_FailedRoundLeavesWinners ==
    (/\ last_op.op \in {"project", "merge"}
     /\ ValidTarget
     /\ last_op.invoked
     /\ last_op.raised = "NextRoundError")
        => brain_winners = last_op.winners_before

\* C12: at the moment project or merge invokes next_round, for every parent
\* assembly being fired all of its representative neurons are contained in
\* brain.winners[parent.area], also when several fired assemblies share an
\* area and when the target area is the parent's own area.
C12_FiringInputsInPlace ==
    (last_op.op \in {"project", "merge"} /\ last_op.invoked)
        => \A i \in 1..Len(last_op.assemblies) :
              representative_neuron(last_op.assemblies[i])
                  \subseteq last_op.at_round[heap[last_op.assemblies[i]].area]

----------------------------------------------------------------------------
(* Specification SpecHash: assembly.py, Assembly.assembly_hash and the uid  *)
(* Assembly.__new__ gives an assembly.                                      *)

\* the assemblies and stimuli that can be parents
Projectables == 1..MaxProjectable

\* hash values are kept to a small width
HashMod == 2 ^ 6

RECURSIVE TupleHash(_, _)
\* hash(tuple): the element hashes folded in order, so it depends on the
\* elements only through their hashes and on their order
TupleHash(hashes, acc) ==
    IF hashes = <<>> THEN acc
    ELSE TupleHash(Tail(hashes), (acc * 31 + Head(hashes) + 1) % HashMod)

\* one step of a stable sort by hash: x goes after every element whose
\* hash is not larger
InsertByHash(sorted, x) ==
    LET n == Cardinality({i \in 1..Len(sorted) :
                            obj_hash.parent[sorted[i]] <= obj_hash.parent[x]})
    IN  SubSeq(sorted, 1, n) \o <<x>> \o SubSeq(sorted, n + 1, Len(sorted))

RECURSIVE SortFrom(_, _)
SortFrom(parents, sorted) ==
    IF parents = <<>> THEN sorted
    ELSE SortFrom(Tail(parents), InsertByHash(sorted, Head(parents)))

SortedByHashKeepsOrder(parents) == parents

\* assembly.py:184, sorted(parents, key=hash): stable
SortedByHash(parents) == SortFrom(parents, <<>>)

\* Assembly.assembly_hash, assembly.py:181-184
assembly_hash(target, parents) ==
    LET sorted == SortedByHash(parents) IN
    TupleHash(<<obj_hash.area[target]>> \o
              [i \in 1..Len(sorted) |-> obj_hash.parent[sorted[i]]], 7)

\* any hash of the areas and projectables, equal hashes included
InitHash ==
    /\ obj_hash \in [area : [Areas -> 0..MaxHash],
                     parent : [Projectables -> 0..MaxHash]]
    /\ made = [called |-> FALSE]
    /\ added = [called |-> FALSE]
    /\ SupportIdle
    /\ FunIdle
    /\ CompIdle

\* Assembly.__new__, assembly.py:186-188: the uid is computed once, when the
\* object is made
AssemblyNew(parents, target) ==
    /\ ~made.called
    /\ made' = [called |-> TRUE, area |-> target, parents |-> parents,
                uid |-> assembly_hash(target, parents)]
    /\ UNCHANGED <<obj_hash, added, supportVars, funVars, compVars>>

NextHash ==
    \E target \in Areas : \E parents \in SeqsUpTo(Projectables, MaxParents) :
        AssemblyNew(parents, target)

SpecHash == InitHash /\ [][NextHash]_vars

----------------------------------------------------------------------------
(* Claim about assembly_hash, checked under SpecHash *)

\* the parents of the last construction in the order f gives them
Reordered(f) == [i \in 1..Len(made.parents) |-> made.parents[f[i]]]

\* C11: for any area and any two orderings of the same parents,
\* assembly_hash, and so the uid given to the Assembly, is the same.
C11_HashIgnoresParentOrder ==
    made.called =>
        \A f \in Permutations(1..Len(made.parents)) :
            assembly_hash(made.area, Reordered(f)) = made.uid

\* an assembly made of two parents given in descending order of hash, so
\* that the sort reorders them
C11_Witness ==
    /\ made.called
    /\ Len(made.parents) = 2
    /\ obj_hash.parent[made.parents[1]] > obj_hash.parent[made.parents[2]]

----------------------------------------------------------------------------
(* Specification SpecTuple: the + operator of assembly_fun.py (Assembly and *)
(* its inner AssemblyTuple) and of assembly.py (AssemblyTuple, which        *)
(* Assembly inherits).                                                      *)

\* an Assembly operand; its members are the assembly itself, as
\* AssemblyTuple.__init__(self, self) has it in assembly.py:203
AnAssembly(a) == [kind |-> "Assembly", members |-> <<a>>]

\* AssemblyTuple(*assemblies)
AnAssemblyTuple(assemblies) == [kind |-> "AssemblyTuple", members |-> assemblies]

\* a Stimulus operand: neither an Assembly nor an AssemblyTuple
AStimulus == [kind |-> "Stimulus", members |-> <<>>]

Raised(exc) == [raised |-> exc, members |-> <<>>]

Returned(assemblies) == [raised |-> "none", members |-> assemblies]

\* the operands there are: assembly_fun.py allows the empty AssemblyTuple,
\* assembly.py:43-44 raises IndexError when one is constructed
FunOperands ==
    {AnAssembly(a) : a \in Projectables}
        \cup {AnAssemblyTuple(t) : t \in SeqsUpTo(Projectables, MaxMembers)}

Operands == {x \in FunOperands : x.members # <<>>}

\* Assembly.AssemblyTuple.__add__, assembly_fun.py:165-168:
\*   self.assemblies + ((other, ) if isinstance(other, Assembly) else other)
\* a tuple plus an AssemblyTuple object is a TypeError
FunAssemblyTupleAdd(self, other) ==
    IF other.kind \notin {"Assembly", "AssemblyTuple"}
    THEN Raised("AssertionError")
    ELSE IF other.kind = "Assembly"
    THEN Returned(self.members \o other.members)
    ELSE Raised("TypeError")

\* Assembly.__add__, assembly_fun.py:188-192: the conditional expression
\* takes the whole sum as its first branch,
\*   (AssemblyTuple(self) + AssemblyTuple(other)) if isinstance(other, Assembly)
\*   else AssemblyTuple(*other)
FunAssemblyAdd(self, other) ==
    IF other.kind \notin {"Assembly", "AssemblyTuple"}
    THEN Raised("AssertionError")
    ELSE IF other.kind = "Assembly"
    THEN FunAssemblyTupleAdd(AnAssemblyTuple(self.members),
                             AnAssemblyTuple(other.members))
    ELSE Returned(other.members)

\* AssemblyTuple.__add__, assembly.py:118-129; Assembly is a subclass of
\* AssemblyTuple
AssemblyTupleAdd(self, other) ==
    IF other.kind \notin {"Assembly", "AssemblyTuple"}
    THEN Raised("TypeError")
    ELSE Returned(self.members \o other.members)

InitTuple ==
    /\ added = [called |-> FALSE]
    /\ obj_hash = <<>>
    /\ made = [called |-> FALSE]
    /\ SupportIdle
    /\ FunIdle
    /\ CompIdle

Evaluated(impl, left, right, r) ==
    /\ ~added.called
    /\ added' = [called |-> TRUE, impl |-> impl, left |-> left, right |-> right,
                 raised |-> r.raised, members |-> r.members]
    /\ UNCHANGED <<obj_hash, made, supportVars, funVars, compVars>>

\* left + right in assembly_fun.py
FunAdd(left, right) ==
    Evaluated("assembly_fun", left, right,
              IF left.kind = "Assembly" THEN FunAssemblyAdd(left, right)
              ELSE FunAssemblyTupleAdd(left, right))

\* left + right in assembly.py
Add(left, right) ==
    Evaluated("assembly", left, right, AssemblyTupleAdd(left, right))

NextTuple ==
    \/ \E left \in FunOperands : \E right \in FunOperands \cup {AStimulus} :
            FunAdd(left, right)
    \/ \E left \in Operands : \E right \in Operands \cup {AStimulus} :
            Add(left, right)

SpecTuple == InitTuple /\ [][NextTuple]_vars

----------------------------------------------------------------------------
(* Claim about the + operator, checked under SpecTuple *)

\* C14: + concatenates: for an Assembly a and an AssemblyTuple T, a + T is
\* an AssemblyTuple whose members are a followed by the members of T, and
\* for AssemblyTuples T1 and T2, T1 + T2 has the members of T1 followed by
\* those of T2; no member is dropped and the length is the sum of the
\* lengths.
C14_PlusConcatenates ==
    (added.called /\ added.right.kind = "AssemblyTuple")
        => (/\ added.raised = "none"
            /\ added.members = added.left.members \o added.right.members
            /\ Len(added.members) =
                   Len(added.left.members) + Len(added.right.members))

====
